---- MODULE Spec2Model ----
(***************************************************************************)
(* Model of sgx_tstd/src/future.rs: the GenFuture adapter that drives a    *)
(* generator through Future::poll, and the thread-local task waker slot    *)
(* (TLS_WAKER) with its two scoped accessors set_task_waker and            *)
(* get_task_waker and the composition poll_with_tls_waker.                 *)
(*                                                                         *)
(* The accessors take closures.  A call is modelled by two steps: the      *)
(* entry (everything the function does before it runs the closure) pushes  *)
(* a frame on the calling thread's stack, the exit (the drop of the        *)
(* SetOnDrop guard, on return or during unwinding) pops it.  What the      *)
(* closures and the generator bodies do in between is chosen by the        *)
(* environment: more calls, a return, or a panic.                          *)
(***************************************************************************)
EXTENDS Integers, Sequences, FiniteSets, TLC

\* ------------------------------------------------------------------ bounds
MaxDepth     == 3   \* calls in progress on one thread
MaxYields    == 2   \* yields of a generator before it completes

\* ------------------------------------------------------------- the domain
Threads  == {"t1", "t2"}
Main     == "t1"
Handles  == {"h1", "h2"}          \* the LocalWakers a driver passes
Adapters == {"f1", "f2"}          \* GenFuture instances
Values   == {42, 7}               \* T::Return values
None     == "None"                \* Option::None in TLS_WAKER
NoPanic  == "NoPanic"             \* the thread is not unwinding
NoAdapter == "NoAdapter"
ExpectMsg == "TLS LocalWaker not set"   \* the expect() message
BodyPayloads == {"E1"}            \* panics raised by closures and generators

VARIABLES
    tls_waker,   \* [Threads -> Handles \cup {None}]   TLS_WAKER of each thread
    stack,       \* [Threads -> Seq(frame)]            calls in progress
    unwinding,   \* [Threads -> payload or NoPanic]    panic in flight
    gen,         \* [Adapters -> generator record]     the wrapped generators
    pendings,    \* [Adapters -> Nat]                  Pending results its drivers got
    event        \* the last step taken, with the values it saw

vars == <<tls_waker, stack, unwinding, gen, pendings, event>>

\* --------------------------------------------------- pieces of the source

\* GeneratorState and Poll values.
Yielded      == <<"Yielded">>
Complete(x)  == <<"Complete", x>>
Pending      == <<"Pending">>
Ready(x)     == <<"Ready", x>>
Panicked(p)  == <<"Panic", p>>

\* A match that never reports completion.
PollMapNeverReady(out) ==
    Pending

\* The match in GenFuture::poll.
PollMap(out) ==
    IF out = Yielded THEN Pending ELSE Ready(out[2])

\* A set_task_waker that builds its guard but does not install the waker.
set_task_waker_enter_no_install(cell, lw) ==
    [cell |-> cell, guard |-> cell]

\* A set_task_waker whose guard holds the new waker instead of the old one.
set_task_waker_enter_keeps_new(cell, lw) ==
    [cell |-> lw, guard |-> lw]

\* set_task_waker up to the call of f: tls_waker.replace(Some(lw)), then the
\* guard SetOnDrop(old_waker).
set_task_waker_enter(cell, lw) ==
    [cell |-> lw, guard |-> cell]

\* A get_task_waker that reads the slot without clearing it.
get_task_waker_enter_no_clear(cell) ==
    [cell |-> cell, guard |-> cell, waker_ptr |-> cell]

\* A get_task_waker that builds its guard from the slot after clearing it.
get_task_waker_enter_late_guard(cell) ==
    [cell |-> None, guard |-> None, waker_ptr |-> cell]

\* get_task_waker up to the expect: tls_waker.replace(None), then the guard
\* SetOnDrop(waker_ptr); waker_ptr is what f will be given.
get_task_waker_enter(cell) ==
    [cell |-> None, guard |-> cell, waker_ptr |-> cell]

\* An expect that never panics.
expect_unchecked(waker_ptr) ==
    TRUE

\* waker_ptr.expect(..): TRUE when it yields a pointer, FALSE when it panics.
expect(waker_ptr) ==
    waker_ptr # None

\* A drop that clears the slot instead of restoring it.
SetOnDrop_drop_clears(guard) ==
    None

\* SetOnDrop::drop: the value written into TLS_WAKER.
SetOnDrop_drop(guard) ==
    guard

\* Generator::resume as seen by poll.  A generator that has yielded fewer
\* than N times yields; at N it completes with V.  Resuming a generator that
\* has completed or panicked is outside the Generator contract: it may give
\* any state (or panic, which is the BodyPanic step).
ResumeOutcomes(g) ==
    IF g.st = "Active"
    THEN IF g.yielded < g.N THEN {Yielded} ELSE {Complete(g.V)}
    ELSE {Yielded} \cup {Complete(v) : v \in Values}

AfterResume(g, out) ==
    IF g.st # "Active" THEN g
    ELSE IF out = Yielded THEN [g EXCEPT !.yielded = @ + 1]
    ELSE [g EXCEPT !.st = "Completed"]

\* A panic has left resume.
AfterPanic(g) ==
    [g EXCEPT !.st = IF @ = "Active" THEN "Panicked" ELSE @]

\* ----------------------------------------------------------------- frames
\* One frame per call in progress.  guard is the value its SetOnDrop holds;
\* a poll_with_tls_waker frame is get_task_waker running poll, and inner is
\* the value held by the SetOnDrop of that poll.  lw is the waker set or
\* received.  pre (TLS_WAKER when the call started) and st0 (the generator's
\* state when resume started) record what the call saw.
Frame(kind, guard, inner, lw, a, pre, st0) ==
    [kind |-> kind, guard |-> guard, inner |-> inner, lw |-> lw, a |-> a,
     pre |-> pre, st0 |-> st0]

Top(t)   == stack[t][Len(stack[t])]
Depth(t) == Len(stack[t])
Pop(s)   == SubSeq(s, 1, Len(s) - 1)

\* The adapter is being resumed by a poll in progress (Pin<&mut Self> is
\* exclusive, so no second poll of it can start).
Running(a) ==
    \E t \in Threads : \E i \in 1..Len(stack[t]) : stack[t][i].a = a

\* Each adapter wraps a generator with its own return value.
ReturnValue(a) ==
    IF a = "f1" THEN 42 ELSE 7

\* The Pending results counted for a: those of the polls that found the
\* generator Active.
Counted(a, st0, res) ==
    IF st0 = "Active" /\ res = Pending
    THEN [pendings EXCEPT ![a] = @ + 1]
    ELSE pendings

Event(t, op, a, h, pre, res, err, st0) ==
    [t |-> t, op |-> op, a |-> a, h |-> h, pre |-> pre, res |-> res, err |-> err,
     st0 |-> st0]

\* ------------------------------------------------------------------- Init
Init ==
    /\ tls_waker = [t \in Threads |-> None]
    /\ stack = [t \in Threads |-> <<>>]
    /\ unwinding = [t \in Threads |-> NoPanic]
    /\ gen \in {g \in [Adapters -> [N : 0..MaxYields, V : Values, yielded : {0},
                                     st : {"Active"}]] :
                  \A a \in Adapters : g[a].V = ReturnValue(a)}
    /\ pendings = [a \in Adapters |-> 0]
    /\ event = Event(Main, "start", NoAdapter, None, None, <<>>, NoPanic, "-")

\* ---------------------------------------------------------------- actions

\* A set_task_waker over a slot that is one static shared by the threads.
SetTaskWakerShared(t, lw) ==
    /\ unwinding[t] = NoPanic
    /\ Depth(t) < MaxDepth
    /\ LET e == set_task_waker_enter(tls_waker[t], lw) IN
        /\ tls_waker' = [u \in Threads |-> e.cell]
        /\ stack' = [stack EXCEPT ![t] =
              Append(@, Frame("set_task_waker", e.guard, "-", lw, NoAdapter,
                              tls_waker[t], "-"))]
    /\ event' = Event(t, "set", NoAdapter, lw, tls_waker[t], <<>>, NoPanic, "-")
    /\ UNCHANGED <<unwinding, gen, pendings>>

\* set_task_waker(lw, f), up to and including the call of f.
SetTaskWaker(t, lw) ==
    /\ unwinding[t] = NoPanic
    /\ Depth(t) < MaxDepth
    /\ LET e == set_task_waker_enter(tls_waker[t], lw) IN
        /\ tls_waker' = [tls_waker EXCEPT ![t] = e.cell]
        /\ stack' = [stack EXCEPT ![t] =
              Append(@, Frame("set_task_waker", e.guard, "-", lw, NoAdapter,
                              tls_waker[t], "-"))]
    /\ event' = Event(t, "set", NoAdapter, lw, tls_waker[t], <<>>, NoPanic, "-")
    /\ UNCHANGED <<unwinding, gen, pendings>>

\* A set_task_waker without a guard: its waker stays in the slot.
SetReturnKeepsWaker(t) ==
    /\ unwinding[t] = NoPanic
    /\ Depth(t) > 0
    /\ Top(t).kind = "set_task_waker"
    /\ stack' = [stack EXCEPT ![t] = Pop(@)]
    /\ event' = Event(t, "set_ret", NoAdapter, None, Top(t).pre, <<>>, NoPanic, "-")
    /\ UNCHANGED <<tls_waker, unwinding, gen, pendings>>

\* f of set_task_waker returns: _reset_waker is dropped.
SetReturn(t) ==
    /\ unwinding[t] = NoPanic
    /\ Depth(t) > 0
    /\ Top(t).kind = "set_task_waker"
    /\ tls_waker' = [tls_waker EXCEPT ![t] = SetOnDrop_drop(Top(t).guard)]
    /\ stack' = [stack EXCEPT ![t] = Pop(@)]
    /\ event' = Event(t, "set_ret", NoAdapter, None, Top(t).pre, <<>>, NoPanic, "-")
    /\ UNCHANGED <<unwinding, gen, pendings>>

\* get_task_waker(f): the slot is cleared and guarded; with a waker f is
\* called with it, without one expect panics and the guard is dropped by the
\* unwinding of get_task_waker itself.
GetTaskWaker(t) ==
    /\ unwinding[t] = NoPanic
    /\ Depth(t) < MaxDepth
    /\ LET e == get_task_waker_enter(tls_waker[t]) IN
        IF expect(e.waker_ptr)
        THEN /\ tls_waker' = [tls_waker EXCEPT ![t] = e.cell]
             /\ stack' = [stack EXCEPT ![t] =
                   Append(@, Frame("get_task_waker", e.guard, "-", e.waker_ptr,
                                   NoAdapter, tls_waker[t], "-"))]
             /\ event' = Event(t, "get", NoAdapter, e.waker_ptr, tls_waker[t], <<>>,
                               NoPanic, "-")
             /\ UNCHANGED unwinding
        ELSE /\ tls_waker' = [tls_waker EXCEPT ![t] = SetOnDrop_drop(e.guard)]
             /\ unwinding' = [unwinding EXCEPT ![t] = ExpectMsg]
             /\ event' = Event(t, "get_fail", NoAdapter, e.waker_ptr, tls_waker[t], <<>>,
                               ExpectMsg, "-")
             /\ UNCHANGED stack
    /\ UNCHANGED <<gen, pendings>>

\* A get_task_waker without a guard: the waker it took is not put back.
GetReturnConsumes(t) ==
    /\ unwinding[t] = NoPanic
    /\ Depth(t) > 0
    /\ Top(t).kind = "get_task_waker"
    /\ stack' = [stack EXCEPT ![t] = Pop(@)]
    /\ event' = Event(t, "get_ret", NoAdapter, None, Top(t).pre, <<>>, NoPanic, "-")
    /\ UNCHANGED <<tls_waker, unwinding, gen, pendings>>

\* f of get_task_waker returns: _reset_waker is dropped.
GetReturn(t) ==
    /\ unwinding[t] = NoPanic
    /\ Depth(t) > 0
    /\ Top(t).kind = "get_task_waker"
    /\ tls_waker' = [tls_waker EXCEPT ![t] = SetOnDrop_drop(Top(t).guard)]
    /\ stack' = [stack EXCEPT ![t] = Pop(@)]
    /\ event' = Event(t, "get_ret", NoAdapter, None, Top(t).pre, <<>>, NoPanic, "-")
    /\ UNCHANGED <<unwinding, gen, pendings>>

\* A poll that keeps track of completion and refuses to resume a generator
\* that has completed.
PollDefensive(t, a, lw) ==
    /\ unwinding[t] = NoPanic
    /\ Depth(t) < MaxDepth
    /\ ~Running(a)
    /\ IF gen[a].st = "Completed"
       THEN /\ unwinding' = [unwinding EXCEPT ![t] = "PolledAfterCompletion"]
            /\ UNCHANGED <<tls_waker, stack>>
       ELSE LET e == set_task_waker_enter(tls_waker[t], lw) IN
            /\ tls_waker' = [tls_waker EXCEPT ![t] = e.cell]
            /\ stack' = [stack EXCEPT ![t] =
                  Append(@, Frame("poll", e.guard, "-", lw, a, tls_waker[t], gen[a].st))]
            /\ UNCHANGED unwinding
    /\ event' = Event(t, "poll", a, lw, tls_waker[t], <<>>, NoPanic, gen[a].st)
    /\ UNCHANGED <<gen, pendings>>

\* GenFuture::poll(self, lw): set_task_waker(lw, || self.0.resume() ...),
\* up to the start of resume.  poll looks at no state of its own before it
\* resumes the generator.
Poll(t, a, lw) ==
    /\ unwinding[t] = NoPanic
    /\ Depth(t) < MaxDepth
    /\ ~Running(a)
    /\ LET e == set_task_waker_enter(tls_waker[t], lw) IN
        /\ tls_waker' = [tls_waker EXCEPT ![t] = e.cell]
        /\ stack' = [stack EXCEPT ![t] =
              Append(@, Frame("poll", e.guard, "-", lw, a, tls_waker[t], gen[a].st))]
    /\ event' = Event(t, "poll", a, lw, tls_waker[t], <<>>, NoPanic, gen[a].st)
    /\ UNCHANGED <<unwinding, gen, pendings>>

\* A poll that returns without putting the old waker back.
PollReturnKeepsWaker(t) ==
    /\ unwinding[t] = NoPanic
    /\ Depth(t) > 0
    /\ Top(t).kind = "poll"
    /\ \E out \in ResumeOutcomes(gen[Top(t).a]) :
        /\ gen' = [gen EXCEPT ![Top(t).a] = AfterResume(@, out)]
        /\ pendings' = Counted(Top(t).a, Top(t).st0, PollMap(out))
        /\ event' = Event(t, "poll_ret", Top(t).a, None, Top(t).pre, PollMap(out),
                          NoPanic, Top(t).st0)
    /\ stack' = [stack EXCEPT ![t] = Pop(@)]
    /\ UNCHANGED <<tls_waker, unwinding>>

\* resume returns inside a poll called directly: the match maps its state,
\* the closure returns and _reset_waker is dropped.
PollReturn(t) ==
    /\ unwinding[t] = NoPanic
    /\ Depth(t) > 0
    /\ Top(t).kind = "poll"
    /\ \E out \in ResumeOutcomes(gen[Top(t).a]) :
        /\ gen' = [gen EXCEPT ![Top(t).a] = AfterResume(@, out)]
        /\ pendings' = Counted(Top(t).a, Top(t).st0, PollMap(out))
        /\ event' = Event(t, "poll_ret", Top(t).a, None, Top(t).pre, PollMap(out),
                          NoPanic, Top(t).st0)
    /\ tls_waker' = [tls_waker EXCEPT ![t] = SetOnDrop_drop(Top(t).guard)]
    /\ stack' = [stack EXCEPT ![t] = Pop(@)]
    /\ UNCHANGED unwinding

\* poll_with_tls_waker(f): get_task_waker(|lw| F::poll(f, lw)), up to the
\* start of resume.  The closure does nothing but call poll, so the two
\* entries are one step; without a waker expect panics before poll is called.
PollWithTlsWaker(t, a) ==
    /\ unwinding[t] = NoPanic
    /\ Depth(t) < MaxDepth
    /\ ~Running(a)
    /\ LET e == get_task_waker_enter(tls_waker[t]) IN
        IF expect(e.waker_ptr)
        THEN LET s == set_task_waker_enter(e.cell, e.waker_ptr) IN
             /\ tls_waker' = [tls_waker EXCEPT ![t] = s.cell]
             /\ stack' = [stack EXCEPT ![t] =
                   Append(@, Frame("poll_with_tls_waker", e.guard, s.guard, e.waker_ptr,
                                   a, tls_waker[t], gen[a].st))]
             /\ event' = Event(t, "ptls", a, e.waker_ptr, tls_waker[t], <<>>, NoPanic,
                               gen[a].st)
             /\ UNCHANGED unwinding
        ELSE /\ tls_waker' = [tls_waker EXCEPT ![t] = SetOnDrop_drop(e.guard)]
             /\ unwinding' = [unwinding EXCEPT ![t] = ExpectMsg]
             /\ event' = Event(t, "ptls_fail", a, e.waker_ptr, tls_waker[t], <<>>,
                               ExpectMsg, gen[a].st)
             /\ UNCHANGED stack
    /\ UNCHANGED <<gen, pendings>>

\* A poll_with_tls_waker whose return runs only the guard of poll.
PollWithTlsWakerReturnInnerOnly(t) ==
    /\ unwinding[t] = NoPanic
    /\ Depth(t) > 0
    /\ Top(t).kind = "poll_with_tls_waker"
    /\ \E out \in ResumeOutcomes(gen[Top(t).a]) :
        /\ gen' = [gen EXCEPT ![Top(t).a] = AfterResume(@, out)]
        /\ pendings' = Counted(Top(t).a, Top(t).st0, PollMap(out))
        /\ event' = Event(t, "ptls_ret", Top(t).a, None, Top(t).pre, PollMap(out),
                          NoPanic, Top(t).st0)
    /\ tls_waker' = [tls_waker EXCEPT ![t] = SetOnDrop_drop(Top(t).inner)]
    /\ stack' = [stack EXCEPT ![t] = Pop(@)]
    /\ UNCHANGED unwinding

\* resume returns inside the poll of a poll_with_tls_waker: poll's guard is
\* dropped, the closure returns poll's result, get_task_waker's guard is
\* dropped.
PollWithTlsWakerReturn(t) ==
    /\ unwinding[t] = NoPanic
    /\ Depth(t) > 0
    /\ Top(t).kind = "poll_with_tls_waker"
    /\ \E out \in ResumeOutcomes(gen[Top(t).a]) :
        /\ gen' = [gen EXCEPT ![Top(t).a] = AfterResume(@, out)]
        /\ pendings' = Counted(Top(t).a, Top(t).st0, PollMap(out))
        /\ event' = Event(t, "ptls_ret", Top(t).a, None, Top(t).pre, PollMap(out),
                          NoPanic, Top(t).st0)
    /\ LET afterPoll == SetOnDrop_drop(Top(t).inner)
           afterGet  == SetOnDrop_drop(Top(t).guard) IN
        tls_waker' = [tls_waker EXCEPT ![t] = afterGet]
    /\ stack' = [stack EXCEPT ![t] = Pop(@)]
    /\ UNCHANGED unwinding

\* A closure or a generator body panics.
BodyPanic(t, p) ==
    /\ unwinding[t] = NoPanic
    /\ Depth(t) > 0
    /\ unwinding' = [unwinding EXCEPT ![t] = p]
    /\ event' = Event(t, "panic", NoAdapter, None, tls_waker[t], <<>>, p, "-")
    /\ UNCHANGED <<tls_waker, stack, gen, pendings>>

\* A panic leaves set_task_waker or get_task_waker: _reset_waker is dropped
\* by the unwinding.
UnwindAccessor(t) ==
    /\ unwinding[t] # NoPanic
    /\ Depth(t) > 0
    /\ Top(t).kind \in {"set_task_waker", "get_task_waker"}
    /\ tls_waker' = [tls_waker EXCEPT ![t] = SetOnDrop_drop(Top(t).guard)]
    /\ stack' = [stack EXCEPT ![t] = Pop(@)]
    /\ event' = Event(t, IF Top(t).kind = "set_task_waker" THEN "set_unw" ELSE "get_unw",
                      NoAdapter, None, Top(t).pre, <<>>, unwinding[t], "-")
    /\ UNCHANGED <<unwinding, gen, pendings>>

\* A poll that restores the slot after the closure instead of through a
\* guard: a panic leaves the slot as resume left it.
UnwindPollNoGuard(t) ==
    /\ unwinding[t] # NoPanic
    /\ Depth(t) > 0
    /\ Top(t).kind = "poll"
    /\ gen' = [gen EXCEPT ![Top(t).a] = AfterPanic(@)]
    /\ stack' = [stack EXCEPT ![t] = Pop(@)]
    /\ event' = Event(t, "poll_unw", Top(t).a, None, Top(t).pre,
                      Panicked(unwinding[t]), unwinding[t], Top(t).st0)
    /\ UNCHANGED <<tls_waker, unwinding, pendings>>

\* A panic leaves resume and a poll called directly: the closure has no
\* catch, _reset_waker is dropped by the unwinding.
UnwindPoll(t) ==
    /\ unwinding[t] # NoPanic
    /\ Depth(t) > 0
    /\ Top(t).kind = "poll"
    /\ gen' = [gen EXCEPT ![Top(t).a] = AfterPanic(@)]
    /\ tls_waker' = [tls_waker EXCEPT ![t] = SetOnDrop_drop(Top(t).guard)]
    /\ stack' = [stack EXCEPT ![t] = Pop(@)]
    /\ event' = Event(t, "poll_unw", Top(t).a, None, Top(t).pre,
                      Panicked(unwinding[t]), unwinding[t], Top(t).st0)
    /\ UNCHANGED <<unwinding, pendings>>

\* A panic leaves resume, poll and the enclosing poll_with_tls_waker: both
\* guards are dropped by the unwinding.
UnwindPollWithTlsWaker(t) ==
    /\ unwinding[t] # NoPanic
    /\ Depth(t) > 0
    /\ Top(t).kind = "poll_with_tls_waker"
    /\ gen' = [gen EXCEPT ![Top(t).a] = AfterPanic(@)]
    /\ LET afterPoll == SetOnDrop_drop(Top(t).inner)
           afterGet  == SetOnDrop_drop(Top(t).guard) IN
        tls_waker' = [tls_waker EXCEPT ![t] = afterGet]
    /\ stack' = [stack EXCEPT ![t] = Pop(@)]
    /\ event' = Event(t, "ptls_unw", Top(t).a, None, Top(t).pre,
                      Panicked(unwinding[t]), unwinding[t], Top(t).st0)
    /\ UNCHANGED <<unwinding, pendings>>

\* The code the panic has reached (a closure, a generator body, or the
\* thread's top level) catches it.
Catch(t) ==
    /\ unwinding[t] # NoPanic
    /\ unwinding' = [unwinding EXCEPT ![t] = NoPanic]
    /\ event' = Event(t, "catch", NoAdapter, None, tls_waker[t], <<>>, unwinding[t], "-")
    /\ UNCHANGED <<tls_waker, stack, gen, pendings>>

\* ---------------------------------------------------------- specification
ThreadStep(t) ==
    \/ \E lw \in Handles : SetTaskWaker(t, lw)
    \/ SetReturn(t)
    \/ GetTaskWaker(t)
    \/ GetReturn(t)
    \/ \E a \in Adapters, lw \in Handles : Poll(t, a, lw)
    \/ PollReturn(t)
    \/ \E a \in Adapters : PollWithTlsWaker(t, a)
    \/ PollWithTlsWakerReturn(t)
    \/ \E p \in BodyPayloads : BodyPanic(t, p)
    \/ UnwindAccessor(t)
    \/ UnwindPoll(t)
    \/ UnwindPollWithTlsWaker(t)
    \/ Catch(t)

\* One thread: the cooperative, single-threaded scheduling the adapter is
\* written for.
Next == ThreadStep(Main)

Spec == Init /\ [][Next]_vars

\* Two threads.  A LocalWaker is not Send and an adapter is polled through an
\* exclusive pinned reference: each thread has its own wakers and drives its
\* own adapter, and the steps of the two threads interleave freely.  The
\* two-thread runs are kept one call shallower than the one-thread runs, with
\* generators that yield once.
WakersOf(t) ==
    IF t = Main THEN {"h1"} ELSE {"h2"}

AdaptersOf(t) ==
    IF t = Main THEN {"f1"} ELSE {"f2"}

MaxDepthMT == MaxDepth - 1

InitMT ==
    /\ Init
    /\ \A a \in Adapters : gen[a].N = 1

ThreadStepMT(t) ==
    \/ \E lw \in WakersOf(t) : Depth(t) < MaxDepthMT /\ SetTaskWaker(t, lw)
    \/ SetReturn(t)
    \/ Depth(t) < MaxDepthMT /\ GetTaskWaker(t)
    \/ GetReturn(t)
    \/ \E a \in AdaptersOf(t), lw \in WakersOf(t) : Depth(t) < MaxDepthMT /\ Poll(t, a, lw)
    \/ PollReturn(t)
    \/ \E a \in AdaptersOf(t) : Depth(t) < MaxDepthMT /\ PollWithTlsWaker(t, a)
    \/ PollWithTlsWakerReturn(t)
    \/ \E p \in BodyPayloads : BodyPanic(t, p)
    \/ UnwindAccessor(t)
    \/ UnwindPoll(t)
    \/ UnwindPollWithTlsWaker(t)
    \/ Catch(t)

NextMT == \E t \in Threads : ThreadStepMT(t)

SpecMT == InitMT /\ [][NextMT]_vars

\* ------------------------------------------------------- reading a state

\* The frame makes TLS_WAKER hold its lw while its closure runs.
IsInstall(f) ==
    f.kind \in {"set_task_waker", "poll", "poll_with_tls_waker"}

\* The frame is a get_task_waker whose closure was given lw and is running.
IsReader(f) ==
    f.kind \in {"get_task_waker", "poll_with_tls_waker"}

\* What a stack discipline makes of TLS_WAKER under the calls in progress s
\* on a thread that started with an empty slot.
SlotOf(s) ==
    IF s = <<>> THEN None
    ELSE IF IsInstall(s[Len(s)]) THEN s[Len(s)].lw ELSE None

Below(t, i) == SubSeq(stack[t], 1, i - 1)

\* The last step was the return of a poll, direct or through
\* poll_with_tls_waker, that had found its generator Active.
PollReturned ==
    event.op \in {"poll_ret", "ptls_ret"} /\ event.st0 = "Active"

\* ------------------------------------------------------------------ claims

\* C1: a generator that yields N times and then completes with V gives its
\* driver Pending on each of the first N polls and Ready(V) on poll N+1: a
\* poll that returns Pending is one of the first N, a poll that returns
\* anything else returns Ready(V), after exactly N Pending, and has completed
\* the generator.
C1_PendingThenReady ==
    PollReturned =>
        LET a == event.a IN
        IF event.res = Pending
        THEN pendings[a] <= gen[a].N /\ gen[a].st = "Active"
        ELSE /\ event.res = Ready(gen[a].V)
             /\ pendings[a] = gen[a].N
             /\ gen[a].st = "Completed"

\* Scenario A: two Pending, then Ready(42).
C1_Witness ==
    /\ event.op = "poll_ret"
    /\ event.res = Ready(42)
    /\ pendings[event.a] = 2
    /\ gen[event.a].N = 2

\* C2: when set_task_waker exits, by return or by unwinding, TLS_WAKER holds
\* the value it held when set_task_waker was called.
C2_SetRestores ==
    event.op \in {"set_ret", "set_unw"} => tls_waker[event.t] = event.pre

C2_Witness ==
    /\ event.op = "set_unw"
    /\ event.pre \in Handles
    /\ tls_waker[event.t] = event.pre

\* C3: get_task_waker called with an empty slot panics with the expect
\* message, its closure is not running (no get_task_waker frame was entered
\* without a waker), and the slot is empty once the panic has left it.
C3_GetOnEmptyFails ==
    /\ (event.op \in {"get", "get_fail"} /\ event.pre = None) =>
          /\ event.op = "get_fail"
          /\ unwinding[event.t] = ExpectMsg
          /\ tls_waker[event.t] = None
    /\ \A t \in Threads : \A i \in 1..Depth(t) :
          stack[t][i].kind = "get_task_waker" =>
              stack[t][i].pre \in Handles /\ stack[t][i].lw \in Handles

\* Scenario B: no call in progress at all.
C3_Witness ==
    /\ event.op = "get_fail"
    /\ Depth(event.t) = 0
    /\ unwinding[event.t] = ExpectMsg

\* C4: a get_task_waker called from the closure of another get_task_waker
\* (the caller's frame is a get_task_waker frame) never runs its closure: it
\* panics with the expect message, whatever waker the outer one holds.
C4_NestedGetFails ==
    /\ (event.op = "get" /\ Depth(event.t) > 1) =>
          stack[event.t][Depth(event.t) - 1].kind # "get_task_waker"
    /\ (event.op = "get_fail" /\ Depth(event.t) > 0
            /\ Top(event.t).kind = "get_task_waker") =>
          unwinding[event.t] = ExpectMsg
    /\ \A t \in Threads :
          (Depth(t) > 0 /\ Top(t).kind = "get_task_waker" /\ unwinding[t] = NoPanic) =>
              ~expect(get_task_waker_enter(tls_waker[t]).waker_ptr)

C4_Witness ==
    /\ event.op = "get_fail"
    /\ Depth(event.t) > 0
    /\ Top(event.t).kind = "get_task_waker"
    /\ Top(event.t).lw = "h2"

\* C5: a get_task_waker called with waker h in the slot gives its closure h;
\* while the closure runs and no call inside it has installed a waker the
\* slot is empty; when get_task_waker exits, by return or by unwinding, the
\* slot holds h again.
C5_GetLendsAndRestores ==
    /\ \A t \in Threads : \A i \in 1..Depth(t) :
          stack[t][i].kind = "get_task_waker" =>
              /\ stack[t][i].lw = stack[t][i].pre
              /\ (\A j \in (i + 1)..Depth(t) : ~IsInstall(stack[t][j])) =>
                    tls_waker[t] = None
    /\ event.op \in {"get_ret", "get_unw"} =>
          event.pre \in Handles /\ tls_waker[event.t] = event.pre

C5_Witness ==
    /\ event.op = "get_unw"
    /\ event.pre = "h1"
    /\ tls_waker[event.t] = "h1"

\* C6: installs nest as a stack.  In every state the slot holds the waker of
\* the innermost call in progress if that call installs one, and is empty if
\* that call is a get_task_waker or no call is in progress; every call found
\* the slot as the calls below it left it, and every get_task_waker closure
\* was given the innermost waker installed below it.
C6_StackDiscipline ==
    \A t \in Threads :
        /\ tls_waker[t] = SlotOf(stack[t])
        /\ \A i \in 1..Depth(t) :
              /\ stack[t][i].pre = SlotOf(Below(t, i))
              /\ IsReader(stack[t][i]) => stack[t][i].lw = SlotOf(Below(t, i))

\* Scenario C: set_task_waker(h1, || set_task_waker(h2, || get_task_waker(..))).
C6_Witness ==
    /\ Depth(Main) = 3
    /\ stack[Main][1].kind = "set_task_waker" /\ stack[Main][1].lw = "h1"
    /\ stack[Main][2].kind = "set_task_waker" /\ stack[Main][2].lw = "h2"
    /\ stack[Main][3].kind = "get_task_waker" /\ stack[Main][3].lw = "h2"

\* C7: a panic raised while resume runs leaves poll as it was raised (poll
\* does not catch it and gives its caller neither Pending nor Ready), and
\* once it has left poll the slot holds what it held when poll was called.
C7_PanicPassesThroughPoll ==
    event.op \in {"poll_unw", "ptls_unw"} =>
        /\ event.err # NoPanic
        /\ unwinding[event.t] = event.err
        /\ event.res = Panicked(event.err)
        /\ tls_waker[event.t] = event.pre

C7_Witness ==
    /\ event.op = "poll_unw"
    /\ event.err = "E1"
    /\ event.pre \in Handles
    /\ tls_waker[event.t] = event.pre

\* C8: poll_with_tls_waker called with waker h in the slot is get_task_waker
\* followed by poll(h): its guards and its waker are those of the two calls
\* made one inside the other, while its resume runs the slot holds h, a
\* get_task_waker called by the generator is given h, its result is the
\* result of a poll, and when it returns the slot holds h again.
C8_PtlsIsGetThenPoll ==
    /\ \A t \in Threads : \A i \in 1..Depth(t) :
          LET f == stack[t][i] IN
          f.kind = "poll_with_tls_waker" =>
              /\ f.pre \in Handles
              /\ f.guard = get_task_waker_enter(f.pre).guard
              /\ f.lw = get_task_waker_enter(f.pre).waker_ptr
              /\ f.inner = set_task_waker_enter(get_task_waker_enter(f.pre).cell, f.lw).guard
              /\ f.lw = f.pre
              /\ i = Depth(t) => tls_waker[t] = f.pre
              /\ (i < Depth(t) /\ stack[t][i + 1].kind = "get_task_waker") =>
                    stack[t][i + 1].lw = f.pre
    /\ event.op = "ptls_ret" =>
          /\ event.pre \in Handles
          /\ tls_waker[event.t] = event.pre
          /\ event.st0 = "Active" =>
                \/ event.res = Pending /\ pendings[event.a] <= gen[event.a].N
                \/ event.res = Ready(gen[event.a].V) /\ pendings[event.a] = gen[event.a].N

C8_Witness ==
    /\ event.op = "ptls_ret"
    /\ event.pre = "h2"
    /\ event.res = Ready(7)
    /\ Depth(event.t) > 0
    /\ Top(event.t).kind = "poll"

\* C9 as claimed: a poll of an adapter whose generator has completed is
\* rejected with PolledAfterCompletion and starts no resume.
C9_RejectsPollAfterCompletion ==
    (event.op = "poll" /\ event.st0 = "Completed") =>
        /\ unwinding[event.t] = "PolledAfterCompletion"
        /\ ~Running(event.a)

\* C9 as amended: GenFuture keeps no Completed state and rejects nothing.
\* Every poll, also one of an adapter that has already returned Ready,
\* installs its waker and starts resume; what that resume gives is the
\* generator's affair, poll leaves the generator as resume left it and the
\* slot holds its old value when the poll has exited.
C9_PollAlwaysResumes ==
    /\ event.op = "poll" =>
          /\ unwinding[event.t] = NoPanic
          /\ Depth(event.t) > 0
          /\ Top(event.t).kind = "poll"
          /\ Top(event.t).a = event.a
          /\ Top(event.t).st0 = event.st0
          /\ tls_waker[event.t] = event.h
    /\ (event.op \in {"poll_ret", "poll_unw"} /\ event.st0 = "Completed") =>
          /\ tls_waker[event.t] = event.pre
          /\ gen[event.a].st = "Completed"

C9_Witness ==
    /\ event.op = "poll"
    /\ event.st0 = "Completed"
    /\ Running(event.a)

\* C10 as claimed: no two get_task_waker closures in progress on a thread
\* were given the same waker.
C10_OneReaderPerWaker ==
    \A t \in Threads : \A i, j \in 1..Depth(t) :
        (i < j /\ IsReader(stack[t][i]) /\ IsReader(stack[t][j])) =>
            stack[t][i].lw # stack[t][j].lw

\* C10 as amended: a get_task_waker closure in progress was given the waker
\* installed by the call directly enclosing it, so each installation has at
\* most one reader, and a second reader runs inside a first one only when a
\* waker was installed inside the first reader's closure (by set_task_waker,
\* by poll, or by the poll that poll_with_tls_waker itself makes).
C10_OneReaderPerInstall ==
    \A t \in Threads :
        /\ \A j \in 1..Depth(t) :
              IsReader(stack[t][j]) =>
                  /\ j > 1
                  /\ IsInstall(stack[t][j - 1])
                  /\ stack[t][j - 1].lw = stack[t][j].lw
        /\ \A i, j \in 1..Depth(t) :
              (i < j /\ IsReader(stack[t][i]) /\ IsReader(stack[t][j])) =>
                  \E k \in i..(j - 1) : IsInstall(stack[t][k])

C10_Witness ==
    /\ Depth(Main) = 3
    /\ IsReader(stack[Main][2])
    /\ stack[Main][3].kind = "get_task_waker"
    /\ stack[Main][2].lw = stack[Main][3].lw

\* C11: poll changes TLS_WAKER only while it runs.  While its resume runs and
\* nothing inside has touched the slot, the slot holds the waker of the poll;
\* when the poll has returned, Pending or Ready, the slot holds what it held
\* when the poll was called, so the waker stays behind only if it was there
\* before; after a poll made with no call in progress the slot is empty.
C11_PollLeavesSlotAsFound ==
    /\ \A t \in Threads :
          (Depth(t) > 0 /\ Top(t).kind = "poll") => tls_waker[t] = Top(t).lw
    /\ event.op = "poll_ret" =>
          /\ event.res \in {Pending} \cup {Ready(v) : v \in Values}
          /\ tls_waker[event.t] = event.pre
          /\ Depth(event.t) = 0 => tls_waker[event.t] = None

\* The third poll of a driver that polls with no call in progress.
C11_Witness ==
    /\ event.op = "poll_ret"
    /\ Depth(event.t) = 0
    /\ pendings[event.a] = 2
    /\ event.res = Ready(42)
    /\ tls_waker[event.t] = None

\* C12: each thread has its own TLS_WAKER.  Under every interleaving of the
\* steps of two threads, a step of one thread leaves the slot of the other
\* thread as it was, and a get_task_waker closure is never given a waker of
\* the other thread.
C12_SlotsArePerThread ==
    /\ [][\A t \in Threads : event'.t # t => tls_waker'[t] = tls_waker[t]]_vars
    /\ [](\A t \in Threads :
            /\ tls_waker[t] \in WakersOf(t) \cup {None}
            /\ \A i \in 1..Depth(t) :
                  IsReader(stack[t][i]) => stack[t][i].lw \in WakersOf(t))

\* Both threads are inside a get_task_waker closure, each with its own waker,
\* the second having got its waker while the first one's was taken.
C12_Witness ==
    /\ Depth("t1") = 2 /\ Top("t1").kind = "get_task_waker" /\ Top("t1").lw = "h1"
    /\ Depth("t2") = 2 /\ Top("t2").kind = "get_task_waker" /\ Top("t2").lw = "h2"
    /\ event.t = "t2" /\ event.op = "get"

\* C13: a poll(h) that finds its generator Active resumes it once, with
\* exactly h in the slot when resume starts, whatever the slot held before:
\* the Pending results given to the drivers are as many as the yields of the
\* generator, a poll that returns Pending leaves the generator Active, and a
\* poll that returns anything else returns Ready(V) and leaves it Completed.
C13_PollResumesOnceWithItsWaker ==
    /\ \A a \in Adapters : pendings[a] = gen[a].yielded
    /\ (event.op = "poll" /\ event.st0 = "Active") =>
          /\ Depth(event.t) > 0
          /\ Top(event.t).kind = "poll"
          /\ Top(event.t).lw = event.h
          /\ tls_waker[event.t] = event.h
    /\ (event.op = "poll_ret" /\ event.st0 = "Active") =>
          IF event.res = Pending
          THEN gen[event.a].st = "Active"
          ELSE event.res = Ready(gen[event.a].V) /\ gen[event.a].st = "Completed"

\* A poll with h2 made where an enclosing call had installed h1.
C13_Witness ==
    /\ event.op = "poll"
    /\ event.st0 = "Active"
    /\ event.pre = "h1"
    /\ event.h = "h2"
    /\ tls_waker[event.t] = "h2"
    /\ gen[event.a].yielded = 1

\* C14: in every state the slot of a thread is empty or holds the waker of
\* a set_task_waker or poll still in progress on that thread, and so does
\* every guard waiting to be dropped: the slot never holds a waker whose
\* installing call has exited, and it is empty when no call is in progress.
C14_SlotHoldsLiveWaker ==
    \A t \in Threads :
        /\ tls_waker[t] # None =>
              \E i \in 1..Depth(t) :
                  IsInstall(stack[t][i]) /\ stack[t][i].lw = tls_waker[t]
        /\ \A i \in 1..Depth(t) :
              stack[t][i].guard # None =>
                  \E k \in 1..(i - 1) :
                      IsInstall(stack[t][k]) /\ stack[t][k].lw = stack[t][i].guard
        /\ Depth(t) = 0 => tls_waker[t] = None

\* An inner set_task_waker(h2) has exited inside a poll made with h1.
C14_Witness ==
    /\ event.op = "set_ret"
    /\ Depth(event.t) = 1
    /\ Top(event.t).kind = "poll"
    /\ Top(event.t).lw = "h1"
    /\ tls_waker[event.t] = "h1"

\* C15: a completed get_task_waker does not use up the waker.  A
\* get_task_waker called right after another one has returned is given the
\* waker the first one was given; when the closure of a get_task_waker has
\* unwound and the panic is caught, the slot holds that waker again, and a
\* get_task_waker called after a catch inside a call that installed a waker
\* is given that waker; every get_task_waker that runs its closure was called
\* directly inside the call that installed the waker it is given.
C15_WakerNotUsedUp ==
    [][LET t == event'.t
           called == event'.op \in {"get", "get_fail"}
       IN  /\ (event.op = "get_ret" /\ event.t = t /\ called) =>
                 event'.op = "get" /\ event'.h = event.pre
           /\ (event.op = "get_unw" /\ event.t = t /\ event'.op = "catch") =>
                 tls_waker'[t] = event.pre /\ event'.pre = event.pre
           /\ (event.op = "catch" /\ event.t = t /\ called
                 /\ Depth(t) > 0 /\ IsInstall(Top(t))) =>
                 event'.op = "get" /\ event'.h = event.pre /\ event'.h = Top(t).lw
           /\ event'.op = "get" =>
                 Depth(t) > 0 /\ IsInstall(Top(t)) /\ event'.h = Top(t).lw
      ]_vars

\* The closure of a get_task_waker called inside set_task_waker(h2, ..) has
\* unwound, and the slot holds h2 for the next get_task_waker.
C15_Witness ==
    /\ event.op = "get_unw"
    /\ event.pre = "h2"
    /\ Depth(event.t) > 0
    /\ Top(event.t).kind = "set_task_waker"
    /\ Top(event.t).lw = "h2"
    /\ tls_waker[event.t] = "h2"

\* C16: poll_with_tls_waker called with an empty slot panics with the expect
\* message before poll is called.  The step starts no resume and changes
\* neither the generators, nor the Pending counts, nor the calls in progress,
\* nor the slot; and a poll_with_tls_waker that does resume its generator
\* was called with a waker in the slot.
C16_PtlsOnEmptyFails ==
    [][LET t == event'.t IN
       /\ event'.op = "ptls_fail" =>
             /\ tls_waker[t] = None
             /\ unwinding'[t] = ExpectMsg
             /\ gen' = gen
             /\ pendings' = pendings
             /\ stack' = stack
             /\ tls_waker' = tls_waker
             /\ event'.st0 = gen[event'.a].st
       /\ event'.op = "ptls" =>
             /\ tls_waker[t] # None
             /\ stack'[t] # stack[t]
      ]_vars

\* Inside a get_task_waker closure, with the inner generator one yield in.
C16_Witness ==
    /\ event.op = "ptls_fail"
    /\ Depth(event.t) > 0
    /\ Top(event.t).kind = "get_task_waker"
    /\ unwinding[event.t] = ExpectMsg
    /\ tls_waker[event.t] = None
    /\ gen[event.a].st = "Active"
    /\ gen[event.a].yielded = 1
    /\ ~Running(event.a)

====
